---- MODULE Spec2Model ----
(***************************************************************************)
(* Room presence and reconnection engine of the chat backend:              *)
(*   - the grace timer manager (events/systemEvents.js, kept here as       *)
(*     src/unnamed/part_003 lines 14-91),                                   *)
(*   - the joinRoom / rejoinRoom / leaveRoom handlers                       *)
(*     (src/events/roomEvents.js),                                          *)
(*   - the connection registry (src/utils/socketStore.js) and the presence  *)
(*     directory (src/utils/redisPresence.js).                              *)
(* JavaScript runs one callback at a time; a handler is suspended at each   *)
(* await, so every action below is the code between two awaits.             *)
(* A store command takes effect when it is issued (one Redis connection     *)
(* serves commands in order); the await only delays the continuation.       *)
(* Times are in milliseconds and kept relative to the current instant:      *)
(* Date.now() is 0 and a clock step moves every stored time back.           *)
(***************************************************************************)
EXTENDS Integers, Sequences, FiniteSets, TLC

VARIABLES
  disconnectGraceTimers,  \* Map userId -> {timer, username, roomId, startedAt}
  timeouts,               \* the runtime's timeouts, by handle number
  members,                \* durable store: room -> set of names (room:{id}:participants)
  presenceStatus,         \* durable store: username -> status written by setPresence
  sockets,                \* the sockets, by socket number
  adapterRooms,           \* chatNamespace.adapter.rooms: room -> set of socket numbers
  isReady,                \* socketStore.isReady
  tasks,                  \* handler invocations suspended at an await
  done                    \* the handler that returned in the last step, with what it emitted

timerVars == <<disconnectGraceTimers, timeouts>>
storeVars == <<members, presenceStatus>>
sessionVars == <<sockets, adapterRooms, isReady, tasks>>
vars == <<disconnectGraceTimers, timeouts, members, presenceStatus,
          sockets, adapterRooms, isReady, tasks, done>>

(***************************************************************************)
(* Values                                                                   *)
(***************************************************************************)
Null == "null"                 \* undefined / null of JavaScript
UserIds == {"u1", "u2"}
usernameOf(u) == IF u = "u1" THEN "alice" ELSE "bob"
Usernames == {usernameOf(u) : u \in UserIds}
Rooms == {"X", "Y"}
\* The rooms the clients of Spec ask for.
AskedRooms == {"X"}
\* The users who open sessions (one user, on up to MaxSockets devices).
Clients == {"u1"}

DISCONNECT_GRACE_PERIOD == 1800000

\* Granularity of the clock: the grace period is TicksPerGrace clock steps.
TicksPerGrace == 2
TickMs == DISCONNECT_GRACE_PERIOD \div TicksPerGrace
\* At most MaxTimers timeouts exist at a time.
MaxTimers == 2

\* At most MaxSockets sockets are connected and MaxInFlight handler
\* invocations suspended at the same time.
MaxSockets == 2
MaxInFlight == 1

\* Date.now()
now == 0

NoDone == [op |-> "none"]
NoTask == [op |-> "none"]

(***************************************************************************)
(* JavaScript Map                                                           *)
(***************************************************************************)
EmptyMap == [k \in {} |-> Null]
MapHas(m, k) == k \in DOMAIN m
MapSet(m, k, v) == [x \in (DOMAIN m) \cup {k} |-> IF x = k THEN v ELSE m[x]]
MapDelete(m, k) == [x \in (DOMAIN m) \ {k} |-> m[x]]

(***************************************************************************)
(* Presence directory (durable store)                                       *)
(***************************************************************************)
\* redisPresence.js: sAdd(room:{roomId}:participants, username)
addUserToRoom(store, roomId, username) ==
  [store EXCEPT ![roomId] = @ \cup {username}]

\* redisPresence.js: sRem(room:{roomId}:participants, username). A name
\* that is not a key of the store (no such room) removes nothing.
removeUserFromRoom(store, roomId, username) ==
  [store EXCEPT ![roomId] = @ \ {username}]

\* redisUtils.setPresence(username, status)
setPresence(store, username, status) ==
  [store EXCEPT ![username] = status]

(***************************************************************************)
(* Timeouts of the runtime (setTimeout / clearTimeout), by handle number.   *)
(* A handle number is free again once its timeout was cleared or its        *)
(* callback has returned.                                                   *)
(*   delay: time left until the timeout is due                              *)
(*   st: "free"      no timeout has this number                             *)
(*       "armed"     waiting to fire                                        *)
(*       "removing"  callback running, suspended at await removeUserFromRoom*)
(*       "offlining" callback running, suspended at await setPresence       *)
(*   cancelled: cancelDisconnectTimer returned true for the map entry that  *)
(*       holds this handle (kept for the record, the code does not read it) *)
(***************************************************************************)
FreeTimeout ==
  [userId |-> Null, username |-> Null, roomId |-> Null, delay |-> 0,
   st |-> "free", cancelled |-> FALSE]

Handles == 1..MaxTimers
FreeHandles == {h \in Handles : timeouts[h].st = "free"}
\* The handle setTimeout returns.
NewHandle == CHOOSE h \in FreeHandles : \A g \in FreeHandles : h <= g

setTimeout(ts, userId, username, roomId, duration) ==
  [ts EXCEPT ![NewHandle] =
      [userId |-> userId, username |-> username, roomId |-> roomId,
       delay |-> duration, st |-> "armed", cancelled |-> FALSE]]

\* A runtime whose clearTimeout does nothing.
clearTimeoutNoop(ts, h) == ts

\* clearTimeout disarms a timeout that has not fired and is a no-op on one
\* whose callback has started.
clearTimeout(ts, h) ==
  IF ts[h].st = "armed" THEN [ts EXCEPT ![h] = FreeTimeout] ELSE ts

Armed(h) == timeouts[h].st = "armed"
Running(h) == timeouts[h].st \in {"removing", "offlining"}

(***************************************************************************)
(* Grace timer manager                                                      *)
(***************************************************************************)
\* A manager that restarts the countdown of an existing entry.
addDisconnectGraceTimerRestart(userId, username, roomId, duration) ==
  IF MapHas(disconnectGraceTimers, userId)
  THEN [map |-> [disconnectGraceTimers EXCEPT ![userId].startedAt = now],
        timeouts |-> [timeouts EXCEPT ![disconnectGraceTimers[userId].timer].delay = duration]]
  ELSE [map |-> MapSet(disconnectGraceTimers, userId,
                       [timer |-> NewHandle, username |-> username,
                        roomId |-> roomId, startedAt |-> now]),
        timeouts |-> setTimeout(timeouts, userId, username, roomId, duration)]

\* What the call leaves in the map and in the runtime's timeouts.
addDisconnectGraceTimer(userId, username, roomId, duration) ==
  IF MapHas(disconnectGraceTimers, userId)
  THEN [map |-> disconnectGraceTimers, timeouts |-> timeouts]
  ELSE [map |-> MapSet(disconnectGraceTimers, userId,
                       [timer |-> NewHandle, username |-> username,
                        roomId |-> roomId, startedAt |-> now]),
        timeouts |-> setTimeout(timeouts, userId, username, roomId, duration)]

\* A call that arms a timeout needs a free handle number.
CanAdd(userId) == MapHas(disconnectGraceTimers, userId) \/ FreeHandles # {}

\* The record: cancelDisconnectTimer returned true for the entry holding h.
MarkCancelled(ts, h) ==
  IF ts[h].st = "free" THEN ts ELSE [ts EXCEPT ![h].cancelled = TRUE]

cancelDisconnectTimer(userId) ==
  IF MapHas(disconnectGraceTimers, userId)
  THEN [map |-> MapDelete(disconnectGraceTimers, userId),
        timeouts |-> MarkCancelled(
            clearTimeout(timeouts, disconnectGraceTimers[userId].timer),
            disconnectGraceTimers[userId].timer),
        ret |-> TRUE]
  ELSE [map |-> disconnectGraceTimers, timeouts |-> timeouts, ret |-> FALSE]

\* The callback handing over the username instead.
expiryRemoveArgUsername(userId, username) == username

\* The name the expiry callback hands to presence.removeUserFromRoom as its
\* second argument: the call is removeUserFromRoom(roomId, userId, username)
\* and the function's parameters are (roomId, username).
expiryRemoveArg(userId, username) == userId

\* Timer callback, up to its first await.
Fire(h) ==
  /\ Armed(h)
  /\ timeouts[h].delay = 0
  /\ LET t == timeouts[h] IN
       IF t.roomId # Null
       THEN /\ members' = removeUserFromRoom(members, t.roomId,
                                             expiryRemoveArg(t.userId, t.username))
            /\ timeouts' = [timeouts EXCEPT ![h].st = "removing"]
            /\ UNCHANGED presenceStatus
       ELSE /\ presenceStatus' = setPresence(presenceStatus, t.username, "offline")
            /\ timeouts' = [timeouts EXCEPT ![h].st = "offlining"]
            /\ UNCHANGED members
  /\ done' = NoDone
  /\ UNCHANGED disconnectGraceTimers
  /\ UNCHANGED sessionVars

\* removeUserFromRoom has answered: set the user offline.
ExpiryAfterRemove(h) ==
  /\ timeouts[h].st = "removing"
  /\ presenceStatus' = setPresence(presenceStatus, timeouts[h].username, "offline")
  /\ timeouts' = [timeouts EXCEPT ![h].st = "offlining"]
  /\ done' = NoDone
  /\ UNCHANGED <<disconnectGraceTimers, members>>
  /\ UNCHANGED sessionVars

\* What the end of the callback leaves in the map.
expiryDelete(map, userId) == MapDelete(map, userId)

\* A callback that announces the departure to the room.
expiryEmitsLeft(roomId, username) == <<[ev |-> "room:userLeft", to |-> {}]>>

\* What the callback emits: it holds no io and no socket.
expiryEmits(roomId, username) == <<>>

\* setPresence has answered (or failed, which is caught): delete the entry.
ExpiryAfterPresence(h) ==
  /\ timeouts[h].st = "offlining"
  /\ disconnectGraceTimers' = expiryDelete(disconnectGraceTimers, timeouts[h].userId)
  /\ timeouts' = [timeouts EXCEPT ![h] = FreeTimeout]
  /\ done' = [op |-> "expiry", userId |-> timeouts[h].userId,
              username |-> timeouts[h].username, roomId |-> timeouts[h].roomId,
              cancelled |-> timeouts[h].cancelled,
              events |-> expiryEmits(timeouts[h].roomId, timeouts[h].username)]
  /\ UNCHANGED <<members, presenceStatus>>
  /\ UNCHANGED sessionVars

\* The callback's first await is rejected: the async callback ends there, as
\* an unhandled rejection, before setPresence and before the entry's delete.
ExpiryRemoveRejects(h) ==
  /\ Armed(h)
  /\ timeouts[h].delay = 0
  /\ timeouts[h].roomId # Null
  /\ timeouts' = [timeouts EXCEPT ![h] = FreeTimeout]
  /\ done' = [op |-> "expiryRejected", userId |-> timeouts[h].userId,
              username |-> timeouts[h].username, roomId |-> timeouts[h].roomId,
              cancelled |-> timeouts[h].cancelled, events |-> <<>>]
  /\ UNCHANGED <<disconnectGraceTimers, members, presenceStatus>>
  /\ UNCHANGED sessionVars

\* No handler and no timer callback is suspended at an await.
Quiet ==
  /\ \A h \in Handles : ~Running(h)
  /\ \A i \in DOMAIN tasks : tasks[i] = NoTask

\* An entry older than its grace period is not told apart by its age: the
\* recorded start time stops at one tick past the period.
OldestStart == now - DISCONNECT_GRACE_PERIOD - TickMs

\* TickMs pass. A timeout that is due fires before the clock moves on, and a
\* store round trip is over long before it does.
Tick ==
  /\ \E h \in Handles : Armed(h)
  /\ \A h \in Handles : Armed(h) => timeouts[h].delay > 0
  /\ Quiet
  /\ timeouts' = [h \in Handles |->
        IF Armed(h) THEN [timeouts[h] EXCEPT !.delay = @ - TickMs] ELSE timeouts[h]]
  /\ disconnectGraceTimers' = [u \in DOMAIN disconnectGraceTimers |->
        [disconnectGraceTimers[u] EXCEPT !.startedAt =
            IF @ - TickMs < OldestStart THEN OldestStart ELSE @ - TickMs]]
  /\ done' = NoDone
  /\ UNCHANGED <<members, presenceStatus>>
  /\ UNCHANGED sessionVars

(***************************************************************************)
(* The manager driven through its exported functions                        *)
(***************************************************************************)
\* hadEntry is kept for the record: the map had an entry at the call.
ApiAdd(userId, roomId) ==
  /\ CanAdd(userId)
  /\ LET r == addDisconnectGraceTimer(userId, usernameOf(userId), roomId,
                                      DISCONNECT_GRACE_PERIOD) IN
       /\ disconnectGraceTimers' = r.map
       /\ timeouts' = r.timeouts
  /\ done' = [op |-> "addDisconnectGraceTimer", userId |-> userId, roomId |-> roomId,
              hadEntry |-> MapHas(disconnectGraceTimers, userId)]
  /\ UNCHANGED <<members, presenceStatus>>
  /\ UNCHANGED sessionVars

\* The durations a caller passes as the fourth argument: the default and a
\* shorter one.
Durations == {DISCONNECT_GRACE_PERIOD, TickMs}

\* addDisconnectGraceTimer(userId, username, roomId, duration) called from
\* outside with a duration of the caller's choice.
ApiAddFor(userId, roomId, duration) ==
  /\ CanAdd(userId)
  /\ LET r == addDisconnectGraceTimer(userId, usernameOf(userId), roomId, duration) IN
       /\ disconnectGraceTimers' = r.map
       /\ timeouts' = r.timeouts
  /\ done' = [op |-> "addDisconnectGraceTimer", userId |-> userId, roomId |-> roomId,
              hadEntry |-> MapHas(disconnectGraceTimers, userId)]
  /\ UNCHANGED <<members, presenceStatus>>
  /\ UNCHANGED sessionVars

\* Math.max(0, remaining)
Max0(x) == IF x < 0 THEN 0 ELSE x

\* function getRemainingGracePeriod(userId)
getRemainingGracePeriod(map, userId) ==
  IF ~MapHas(map, userId) THEN 0
  ELSE LET elapsed == now - map[userId].startedAt
           remaining == DISCONNECT_GRACE_PERIOD - elapsed
       IN Max0(remaining)

\* getRemainingGracePeriod(userId) called from outside.
CallGetRemainingGracePeriod(userId) ==
  /\ done' = [op |-> "getRemainingGracePeriod", userId |-> userId,
              ret |-> getRemainingGracePeriod(disconnectGraceTimers, userId)]
  /\ UNCHANGED <<timerVars, storeVars, sessionVars>>

\* The handle the entry of userId holds, 0 without an entry.
TimerOf(userId) ==
  IF MapHas(disconnectGraceTimers, userId) THEN disconnectGraceTimers[userId].timer ELSE 0

\* hadEntry, timer and wasArmed are kept for the record: the map had an entry
\* at the call, the handle it held, and whether that timeout had yet to fire.
ApiCancel(userId) ==
  /\ LET r == cancelDisconnectTimer(userId) IN
       /\ disconnectGraceTimers' = r.map
       /\ timeouts' = r.timeouts
       /\ done' = [op |-> "cancelDisconnectTimer", userId |-> userId, ret |-> r.ret,
                   hadEntry |-> MapHas(disconnectGraceTimers, userId),
                   timer |-> TimerOf(userId),
                   wasArmed |-> TimerOf(userId) # 0 /\ Armed(TimerOf(userId))]
  /\ UNCHANGED <<members, presenceStatus>>
  /\ UNCHANGED sessionVars

(***************************************************************************)
(* Connection registry (socketStore.js)                                     *)
(***************************************************************************)
NullCount == 0 - 1             \* the null that getSocketRoomCount answers when not ready

\* A registry that answers 0 when it is not ready.
getSocketRoomCountZero(rooms, roomId) ==
  IF ~isReady THEN 0 ELSE Cardinality(rooms[roomId])

getSocketRoomCount(rooms, roomId) ==
  IF ~isReady THEN NullCount ELSE Cardinality(rooms[roomId])

\* A directory that takes an empty answer of the registry for no answer.
getRoomUserCountFallbackOnZero(rooms, store, roomId, fails) ==
  LET socketCount == getSocketRoomCount(rooms, roomId) IN
    IF socketCount # NullCount /\ socketCount # 0 THEN socketCount
    ELSE IF fails THEN 0
    ELSE Cardinality(store[roomId])

\* A directory that answers null when the store fails.
getRoomUserCountFailNull(rooms, store, roomId, fails) ==
  LET socketCount == getSocketRoomCount(rooms, roomId) IN
    IF socketCount # NullCount THEN socketCount
    ELSE IF fails THEN NullCount
    ELSE Cardinality(store[roomId])

\* redisPresence.getRoomUserCount: the registry when ready, the store
\* otherwise (sCard), 0 when the store throws.
getRoomUserCount(rooms, store, roomId, fails) ==
  LET socketCount == getSocketRoomCount(rooms, roomId) IN
    IF socketCount # NullCount THEN socketCount
    ELSE IF fails THEN 0
    ELSE Cardinality(store[roomId])

\* redisUtils.getRoomParticipants: the names in the room's durable set.
getRoomParticipants(roomId) == members[roomId]

(***************************************************************************)
(* Sockets. A socket number is free again once its socket has disconnected. *)
(*   resumed: the connection cancelled a pending grace timer                *)
(*   left:    rooms this session left by leaveRoom and has not joined since *)
(*   (kept for the record, the code does not read them)                     *)
(***************************************************************************)
FreeSocket ==
  [userId |-> Null, username |-> Null, connected |-> FALSE, currentRoomId |-> Null,
   joinedRooms |-> {}, resumed |-> FALSE, left |-> {}]

SocketIds == 1..MaxSockets
Sids == {s \in SocketIds : sockets[s].connected}
FreeSids == SocketIds \ Sids
NewSid == CHOOSE s \in FreeSids : \A x \in FreeSids : s <= x

InFlight(s) == {i \in DOMAIN tasks : tasks[i].op # "none" /\ tasks[i].sock = s}
FreeSlots == {i \in DOMAIN tasks : tasks[i].op = "none"}
\* The slot a new handler invocation takes.
NewSlot == CHOOSE i \in FreeSlots : \A j \in FreeSlots : i <= j

(***************************************************************************)
(* What a handler emits                                                     *)
(***************************************************************************)
\* socket.emit(ev): to the socket itself.
EmitSelf(s, ev) == [ev |-> ev, to |-> {s}]
\* socket.to(room).emit(ev): to the room's sockets except the socket itself.
\* An emit that reaches the sender as well.
EmitOthersAndSelf(s, roomId, ev) == [ev |-> ev, to |-> adapterRooms[roomId]]

EmitOthers(s, roomId, ev) == [ev |-> ev, to |-> adapterRooms[roomId] \ {s}]
\* io.to(room).emit(ev): to all the room's sockets.
EmitRoom(roomId, ev) == [ev |-> ev, to |-> adapterRooms[roomId]]

\* broadcastUserEntered(socket, roomId, ...)
broadcastUserEntered(s, roomId) == EmitOthers(s, roomId, "room:userEntered")

\* A catch block that only logs.
catchEmitsNothing(s) == <<>>

\* catch (error) { logger.error(...); socket.emit('error', ...) }
catchEmits(s) == <<EmitSelf(s, "error")>>

CountEv(events, ev) == Cardinality({i \in 1..Len(events) : events[i].ev = ev})

\* A request as the client sends it: its own identity, any room, and possibly
\* one of the three identifiers missing.
RequestsFor(s, rooms) ==
  {[roomId |-> r, userId |-> sockets[s].userId, username |-> sockets[s].username] :
      r \in rooms \cup {Null}}
  \cup {[roomId |-> "X", userId |-> Null, username |-> sockets[s].username],
        [roomId |-> "X", userId |-> sockets[s].userId, username |-> Null]}

Requests(s) == RequestsFor(s, AskedRooms)

\* A handler that checks the room only.
MissingFieldRoomOnly(data) == data.roomId = Null

\* !roomId || !userId || !username
MissingField(data) ==
  data.roomId = Null \/ data.userId = Null \/ data.username = Null

\* The handler in slot i returns.
FinishWith(i, t, outcome, events) ==
  /\ done' = [op |-> t.op, sock |-> t.sock, outcome |-> outcome,
              events |-> events, roomId |-> t.roomId,
              userId |-> t.userId, username |-> t.username,
              silent |-> t.silent, firstAsk |-> t.firstAsk,
              wasIn |-> t.wasIn, afterLeave |-> t.afterLeave,
              notInRoom |-> t.notInRoom, granted |-> t.granted,
              overlapped |-> t.overlapped,
              userCount |-> t.userCount, inSetAtGate |-> t.inSetAtGate]
  /\ tasks' = [tasks EXCEPT ![i] = NoTask]

Finish(i, outcome, events) == FinishWith(i, tasks[i], outcome, events)

\* A request that is rejected before its first await.
Reject(s, op, data, silent) ==
  /\ done' = [op |-> op, sock |-> s, outcome |-> "invalid",
              events |-> <<EmitSelf(s, "error")>>]
  /\ UNCHANGED <<tasks, sockets, adapterRooms>>

NewTask(s, op, data, silent, pc) ==
  [op |-> op, sock |-> s, pc |-> pc, roomId |-> data.roomId, userId |-> data.userId,
   username |-> data.username, silent |-> silent, isFirstJoin |-> FALSE,
   userCount |-> 0,
   inSetAtGate |-> FALSE,      \* for the record: the room was in joinedRooms at line 54
   granted |-> FALSE,          \* for the record: the gate's result.success
   overlapped |-> FALSE,       \* for the record: ran while another handler of the socket did
   \* kept for the record, the code does not read them:
   firstAsk |-> data.roomId \notin sockets[s].joinedRooms,
   wasIn |-> s \in adapterRooms[data.roomId],        \* registered in the room at the request
   \* at the request the user was in no state of the room: not in its durable
   \* set, no session of the user registered in it, no grace timer pending:
   notInRoom |-> /\ data.username \notin members[data.roomId]
                 /\ \A x \in adapterRooms[data.roomId] : sockets[x].username # data.username
                 /\ ~(/\ MapHas(disconnectGraceTimers, data.userId)
                      /\ disconnectGraceTimers[data.userId].roomId = data.roomId),
   afterLeave |-> data.roomId \in sockets[s].left]

\* The event loop starts the handler: it takes a slot. For the record, the
\* new invocation and those of the same socket still suspended are marked
\* as overlapping.
StartTask(s, t) ==
  [i \in DOMAIN tasks |->
     IF i = NewSlot THEN [t EXCEPT !.overlapped = InFlight(s) # {}]
     ELSE IF i \in InFlight(s) THEN [tasks[i] EXCEPT !.overlapped = TRUE]
     ELSE tasks[i]]

CanStart(s) == s \in Sids /\ FreeSlots # {}

(***************************************************************************)
(* roomService (the access gate and the membership writes behind it)        *)
(***************************************************************************)
\* roomService.joinRoom answered: on success the user is in the durable set.
roomServiceJoinRoom(store, roomId, username, success) ==
  IF success THEN addUserToRoom(store, roomId, username) ELSE store

\* roomService.leaveRoom answered: the user is out of the durable set.
roomServiceLeaveRoom(store, roomId, username) ==
  removeUserFromRoom(store, roomId, username)

\* A handler that refreshes the room's list also when the gate denied.
deniedEmitsListUpdate(s, roomId, op) ==
  <<EmitSelf(s, IF op = "joinRoom" THEN "joinRoom:error" ELSE "rejoinRoom:error"),
    EmitRoom(roomId, "room:userListUpdate")>>

\* if (!result.success) { socket.emit('joinRoom:error' / 'rejoinRoom:error'); return }
deniedEmits(s, roomId, op) ==
  <<EmitSelf(s, IF op = "joinRoom" THEN "joinRoom:error" ELSE "rejoinRoom:error")>>

(***************************************************************************)
(* joinRoom handler                                                         *)
(***************************************************************************)
\* A handler without first-join tracking.
isFirstJoinNever(joinedRooms, roomId) == FALSE

\* A handler that takes every join for a first one.
isFirstJoinAlways(joinedRooms, roomId) == TRUE

\* const isFirstJoin = !socket.joinedRooms.has(roomId)
isFirstJoin(joinedRooms, roomId) == roomId \notin joinedRooms

\* Up to await roomService.joinRoom.
JoinStart(s, data) ==
  /\ CanStart(s)
  /\ IF MissingField(data)
     THEN Reject(s, "joinRoom", data, "omitted")
     ELSE /\ tasks' = StartTask(s,
                 [NewTask(s, "joinRoom", data, "omitted", "gate")
                    EXCEPT !.isFirstJoin = isFirstJoin(sockets[s].joinedRooms, data.roomId)])
          /\ done' = NoDone
          /\ UNCHANGED <<sockets, adapterRooms>>
  /\ UNCHANGED <<timerVars, storeVars, isReady>>

\* The gate has answered. On success: socket.join, currentRoomId, joinedRooms.
\* The registry is ready, so presence.getRoomUserCount answers from it within
\* the same turn and the handler stops next at await getRoomParticipants.
JoinGate(i, success) ==
  /\ tasks[i].op = "joinRoom" /\ tasks[i].pc = "gate"
  /\ LET t == tasks[i] IN
       /\ members' = roomServiceJoinRoom(members, t.roomId, t.username, success)
       /\ IF ~success
          THEN /\ FinishWith(i, [t EXCEPT !.granted = success], "denied",
                               deniedEmits(t.sock, t.roomId, "joinRoom"))
               /\ UNCHANGED <<sockets, adapterRooms>>
          ELSE /\ adapterRooms' = [adapterRooms EXCEPT ![t.roomId] = @ \cup {t.sock}]
               /\ sockets' = [sockets EXCEPT ![t.sock].currentRoomId = t.roomId,
                                             ![t.sock].joinedRooms = @ \cup {t.roomId},
                                             ![t.sock].left = @ \ {t.roomId}]
               /\ tasks' = [tasks EXCEPT
                     ![i].pc = "participants",
                     ![i].granted = success,
                     ![i].inSetAtGate = t.roomId \in sockets[t.sock].joinedRooms,
                     ![i].userCount = getRoomUserCount(adapterRooms', members', t.roomId, FALSE)]
               /\ done' = NoDone
  /\ UNCHANGED <<timerVars, presenceStatus, isReady>>

\* What joinRoom emits once participants and level are known.
joinRoomEmits(s, roomId, firstJoin) ==
  <<EmitSelf(s, "joinRoom:success")>>
  \o (IF firstJoin THEN <<broadcastUserEntered(s, roomId)>> ELSE <<>>)
  \o <<EmitRoom(roomId, "room:userListUpdate")>>

\* getRoomParticipants and then getUserLevel have answered, or one of them threw.
JoinEmit(i, thrown) ==
  /\ tasks[i].op = "joinRoom" /\ tasks[i].pc = "participants"
  /\ LET t == tasks[i] IN
       IF thrown
       THEN Finish(i, "error", catchEmits(t.sock))
       ELSE Finish(i, "success", joinRoomEmits(t.sock, t.roomId, t.isFirstJoin))
  /\ UNCHANGED <<timerVars, storeVars, sockets, adapterRooms, isReady>>

(***************************************************************************)
(* rejoinRoom handler                                                       *)
(***************************************************************************)
\* const { ..., silent = true } = data
\* A handler without the default: an omitted flag reads as falsy.
silentOfNoDefault(silent) == silent = "true"

silentOf(silent) == IF silent = "omitted" THEN TRUE ELSE silent = "true"

\* What the rejoinRoom handler does to the grace timer map and the timeouts.
rejoinRoomTimers(userId) ==
  [map |-> disconnectGraceTimers, timeouts |-> timeouts]

RejoinStart(s, data, silent) ==
  /\ CanStart(s)
  /\ IF MissingField(data)
     THEN Reject(s, "rejoinRoom", data, silent)
     ELSE /\ tasks' = StartTask(s, NewTask(s, "rejoinRoom", data, silent, "gate"))
          /\ done' = NoDone
          /\ UNCHANGED <<sockets, adapterRooms>>
  /\ UNCHANGED <<timerVars, storeVars, isReady>>

\* A handler that tracks the room as joined, as joinRoom does.
rejoinRoomJoinedAdds(joinedRooms, roomId) == joinedRooms \cup {roomId}

\* "Don't reset hasJoinedRoom - this is a rejoin": socket.joinedRooms as the
\* rejoinRoom handler leaves it.
rejoinRoomJoined(joinedRooms, roomId) == joinedRooms

\* A handler that lets a user back in only while a grace timer entry exists.
rejoinRoomProceedsWithTimer(userId, success) ==
  success /\ MapHas(disconnectGraceTimers, userId)

\* Whether the handler goes on after the gate: if (!result.success) return.
rejoinRoomProceeds(userId, success) == success

RejoinGate(i, success) ==
  /\ tasks[i].op = "rejoinRoom" /\ tasks[i].pc = "gate"
  /\ LET t == tasks[i] IN
       /\ members' = roomServiceJoinRoom(members, t.roomId, t.username, success)
       /\ IF ~rejoinRoomProceeds(t.userId, success)
          THEN /\ FinishWith(i, [t EXCEPT !.granted = success], "denied",
                               deniedEmits(t.sock, t.roomId, "rejoinRoom"))
               /\ UNCHANGED <<sockets, adapterRooms, disconnectGraceTimers, timeouts>>
          ELSE /\ adapterRooms' = [adapterRooms EXCEPT ![t.roomId] = @ \cup {t.sock}]
               /\ sockets' = [sockets EXCEPT
                     ![t.sock].currentRoomId = t.roomId,
                     ![t.sock].joinedRooms = rejoinRoomJoined(@, t.roomId)]
               /\ tasks' = [tasks EXCEPT
                     ![i].pc = "participants",
                     ![i].granted = success,
                     ![i].userCount = getRoomUserCount(adapterRooms', members', t.roomId, FALSE)]
               /\ disconnectGraceTimers' = rejoinRoomTimers(t.userId).map
               /\ timeouts' = rejoinRoomTimers(t.userId).timeouts
               /\ done' = NoDone
  /\ UNCHANGED <<presenceStatus, isReady>>

rejoinRoomEmits(s, roomId, silent) ==
  <<EmitSelf(s, "rejoinRoom:success")>>
  \o (IF ~silentOf(silent) THEN <<broadcastUserEntered(s, roomId)>> ELSE <<>>)
  \o <<EmitRoom(roomId, "room:userListUpdate")>>

RejoinEmit(i, thrown) ==
  /\ tasks[i].op = "rejoinRoom" /\ tasks[i].pc = "participants"
  /\ LET t == tasks[i] IN
       IF thrown
       THEN Finish(i, "error", catchEmits(t.sock))
       ELSE Finish(i, "success", rejoinRoomEmits(t.sock, t.roomId, t.silent))
  /\ UNCHANGED <<timerVars, storeVars, sockets, adapterRooms, isReady>>

(***************************************************************************)
(* leaveRoom handler                                                        *)
(***************************************************************************)
\* Up to await roomService.leaveRoom: the socket leaves the socket.io room.
LeaveStart(s, data) ==
  /\ CanStart(s)
  /\ IF MissingField(data)
     THEN Reject(s, "leaveRoom", data, "omitted")
     ELSE /\ tasks' = StartTask(s, NewTask(s, "leaveRoom", data, "omitted", "remove"))
          /\ adapterRooms' = [adapterRooms EXCEPT ![data.roomId] = @ \ {s}]
          /\ done' = NoDone
          /\ UNCHANGED sockets
  /\ UNCHANGED <<timerVars, storeVars, isReady>>

\* What the leaveRoom handler does to the grace timer map and the timeouts.
leaveRoomTimers(userId) ==
  [map |-> disconnectGraceTimers, timeouts |-> timeouts]

\* A handler that keeps the room in the session's set.
leaveRoomJoinedKept(joinedRooms, roomId) == joinedRooms

\* if (socket.joinedRooms) socket.joinedRooms.delete(roomId)
leaveRoomJoined(joinedRooms, roomId) == joinedRooms \ {roomId}

\* roomService.leaveRoom has answered (or thrown): joinedRooms, currentRoomId.
LeaveRemoved(i, thrown) ==
  /\ tasks[i].op = "leaveRoom" /\ tasks[i].pc = "remove"
  /\ LET t == tasks[i] IN
       IF thrown
       THEN /\ Finish(i, "error", catchEmits(t.sock))
            /\ UNCHANGED <<members, sockets, disconnectGraceTimers, timeouts>>
       ELSE /\ members' = roomServiceLeaveRoom(members, t.roomId, t.username)
            /\ sockets' = [sockets EXCEPT
                            ![t.sock].joinedRooms = leaveRoomJoined(@, t.roomId),
                            ![t.sock].currentRoomId = Null,
                            ![t.sock].left = @ \cup {t.roomId}]
            /\ tasks' = [tasks EXCEPT
                  ![i].pc = "participants",
                  ![i].userCount = getRoomUserCount(adapterRooms, members', t.roomId, FALSE)]
            /\ disconnectGraceTimers' = leaveRoomTimers(t.userId).map
            /\ timeouts' = leaveRoomTimers(t.userId).timeouts
            /\ done' = NoDone
  /\ UNCHANGED <<presenceStatus, adapterRooms, isReady>>

\* A handler that tells nobody but the list.
leaveRoomEmitsNoLeft(s, roomId) ==
  <<EmitSelf(s, "leaveRoom:success"),
    EmitRoom(roomId, "room:userListUpdate")>>

leaveRoomEmits(s, roomId) ==
  <<EmitSelf(s, "leaveRoom:success"),
    EmitOthers(s, roomId, "room:userLeft"),
    EmitRoom(roomId, "room:userListUpdate")>>

LeaveEmit(i, thrown) ==
  /\ tasks[i].op = "leaveRoom" /\ tasks[i].pc = "participants"
  /\ LET t == tasks[i] IN
       IF thrown
       THEN Finish(i, "error", catchEmits(t.sock))
       ELSE Finish(i, "success", leaveRoomEmits(t.sock, t.roomId))
  /\ UNCHANGED <<timerVars, storeVars, sockets, adapterRooms, isReady>>

(***************************************************************************)
(* server.js: connection and disconnection of a socket. The file is not     *)
(* part of the sources; what it does with the grace timer is taken from     *)
(* the server logs quoted in TESTING_GUIDE.md ("Client connected",          *)
(* "Disconnect grace timer cancelled ... reconnected", "disconnected from   *)
(* room X, starting 30 minute grace period").                               *)
(***************************************************************************)
\* A client connects as userId: its pending grace timer is cancelled.
Connect(userId) ==
  /\ FreeSids # {}
  /\ LET r == cancelDisconnectTimer(userId) IN
       /\ disconnectGraceTimers' = r.map
       /\ timeouts' = r.timeouts
       /\ sockets' = [sockets EXCEPT ![NewSid] =
            [userId |-> userId, username |-> usernameOf(userId), connected |-> TRUE,
             currentRoomId |-> Null, joinedRooms |-> {},
             resumed |-> r.ret, left |-> {}]]
  /\ done' = NoDone
  /\ UNCHANGED <<storeVars, adapterRooms, isReady, tasks>>

\* The transport of socket s is lost (not an explicit leave) once its
\* handlers have returned: socket.io drops the socket from its rooms and the
\* grace period of its current room starts.
Disconnect(s) ==
  /\ s \in Sids
  /\ InFlight(s) = {}
  /\ sockets' = [sockets EXCEPT ![s] = FreeSocket]
  /\ adapterRooms' = [r \in Rooms |-> adapterRooms[r] \ {s}]
  /\ IF sockets[s].currentRoomId # Null
     THEN /\ CanAdd(sockets[s].userId)
          /\ LET r == addDisconnectGraceTimer(sockets[s].userId, sockets[s].username,
                                              sockets[s].currentRoomId,
                                              DISCONNECT_GRACE_PERIOD) IN
               /\ disconnectGraceTimers' = r.map
               /\ timeouts' = r.timeouts
     ELSE UNCHANGED <<disconnectGraceTimers, timeouts>>
  /\ done' = NoDone
  /\ UNCHANGED <<storeVars, isReady, tasks>>

(***************************************************************************)
(* System events handler (authenticate, logout, disconnect). It keeps a    *)
(* grace timer map of its own, userId -> timeout handle, in the variable   *)
(* disconnectGraceTimers, and its sockets carry                             *)
(*   logoutProcessed: socket._logoutProcessed                               *)
(* Its timeouts carry sockLoggedOut, the _logoutProcessed of the socket in  *)
(* the callback's closure, and st = "logout" while the callback is          *)
(* suspended in handleLogout.                                               *)
(***************************************************************************)
SYS_DISCONNECT_GRACE_PERIOD == 30000
SysTickMs == SYS_DISCONNECT_GRACE_PERIOD \div TicksPerGrace

ExplicitReasons == {"client namespace disconnect", "server namespace disconnect"}
Reasons == ExplicitReasons \cup {"transport close"}

\* A handler that takes every disconnect for an explicit one.
isExplicitDisconnectAlways(reason) == TRUE

\* reason === 'client namespace disconnect' || reason === 'server namespace disconnect'
isExplicitDisconnect(reason) == reason \in ExplicitReasons

\* io.emit(ev): to every connected socket.
EmitAll(ev) == [ev |-> ev, to |-> Sids]

\* A socket that has connected and not authenticated yet.
SysSocket ==
  [userId |-> Null, username |-> Null, connected |-> TRUE, logoutProcessed |-> FALSE]

SysFreeHandles(ts) == {h \in Handles : ts[h].st = "free"}
SysNewHandle(ts) == CHOOSE h \in SysFreeHandles(ts) : \A g \in SysFreeHandles(ts) : h <= g

\* setTimeout(async () => {...}, DISCONNECT_GRACE_PERIOD)
sysSetTimeout(ts, userId, username, loggedOut) ==
  [ts EXCEPT ![SysNewHandle(ts)] =
      [userId |-> userId, username |-> username, roomId |-> Null,
       delay |-> SYS_DISCONNECT_GRACE_PERIOD, st |-> "armed", cancelled |-> FALSE,
       sockLoggedOut |-> loggedOut]]

\* cancelDisconnectTimer of the system events handler, and the same lines at
\* the head of authenticate.
sysCancelDisconnectTimer(userId) ==
  IF MapHas(disconnectGraceTimers, userId)
  THEN [map |-> MapDelete(disconnectGraceTimers, userId),
        timeouts |-> clearTimeout(timeouts, disconnectGraceTimers[userId]),
        ret |-> TRUE]
  ELSE [map |-> disconnectGraceTimers, timeouts |-> timeouts, ret |-> FALSE]

\* if (disconnectGraceTimers.has(timerKey)) clearTimeout(disconnectGraceTimers.get(timerKey))
sysClearOld(userId) ==
  IF MapHas(disconnectGraceTimers, userId)
  THEN clearTimeout(timeouts, disconnectGraceTimers[userId])
  ELSE timeouts

\* const graceTimer = setTimeout(...); disconnectGraceTimers.set(timerKey, graceTimer)
sysStartGraceTimer(userId, username, loggedOut) ==
  [map |-> MapSet(disconnectGraceTimers, userId, SysNewHandle(sysClearOld(userId))),
   timeouts |-> sysSetTimeout(sysClearOld(userId), userId, username, loggedOut)]

\* redis user:{id}:rooms and user:{id}:activeRooms: the rooms the user is in.
userRooms(userId) == {r \in Rooms : usernameOf(userId) \in members[r]}

RECURSIVE removeFromRooms(_, _, _)
\* removeUserFromRoom(roomId, actualUsername) for each of the rooms
removeFromRooms(store, rooms, username) ==
  IF rooms = {} THEN store
  ELSE LET r == CHOOSE x \in rooms : TRUE IN
         removeFromRooms(removeUserFromRoom(store, r, username), rooms \ {r}, username)

RECURSIVE logoutRoomEmits(_)
\* What handleLogout emits to each room it force-leaves.
logoutRoomEmits(rooms) ==
  IF rooms = {} THEN <<>>
  ELSE LET r == CHOOSE x \in rooms : TRUE IN
         <<[ev |-> "chat:message", to |-> adapterRooms[r], roomId |-> r],
           [ev |-> "room:user:left", to |-> adapterRooms[r], roomId |-> r],
           [ev |-> "room:participants:update", to |-> adapterRooms[r], roomId |-> r],
           [ev |-> "room:currently:update", to |-> adapterRooms[r], roomId |-> r]>>
         \o logoutRoomEmits(rooms \ {r})

\* A new transport connection.
SysConnect ==
  /\ FreeSids # {}
  /\ sockets' = [sockets EXCEPT ![NewSid] = SysSocket]
  /\ done' = NoDone
  /\ UNCHANGED <<timerVars, storeVars, adapterRooms, isReady, tasks>>

\* authenticate up to await userService.getUserByUsername: validation and
\* the cancellation of a pending grace timer.
AuthStart(s, data) ==
  /\ CanStart(s)
  /\ InFlight(s) = {}
  /\ IF data.userId = Null \/ data.username = Null
     THEN /\ done' = [op |-> "authenticate", sock |-> s, outcome |-> "invalid",
                      events |-> <<EmitSelf(s, "error")>>]
          /\ UNCHANGED <<timerVars, tasks>>
     ELSE /\ disconnectGraceTimers' = sysCancelDisconnectTimer(data.userId).map
          /\ timeouts' = sysCancelDisconnectTimer(data.userId).timeouts
          /\ tasks' = [tasks EXCEPT ![NewSlot] =
                [op |-> "authenticate", sock |-> s, pc |-> "user",
                 userId |-> data.userId, username |-> data.username]]
          /\ done' = NoDone
  /\ UNCHANGED <<storeVars, sockets, adapterRooms, isReady>>

\* The user service has answered: socket.userId, socket.username, and
\* 'authenticated' to the socket, or 'error' when it failed.
AuthDone(i, ok) ==
  /\ tasks[i].op = "authenticate"
  /\ LET t == tasks[i] IN
       IF ok
       THEN /\ sockets' = [sockets EXCEPT ![t.sock].userId = t.userId,
                                          ![t.sock].username = t.username]
            /\ done' = [op |-> "authenticate", sock |-> t.sock, outcome |-> "success",
                        events |-> <<EmitSelf(t.sock, "authenticated")>>]
       ELSE /\ done' = [op |-> "authenticate", sock |-> t.sock, outcome |-> "error",
                        events |-> <<EmitSelf(t.sock, "error")>>]
            /\ UNCHANGED sockets
  /\ tasks' = [tasks EXCEPT ![i] = NoTask]
  /\ UNCHANGED <<timerVars, storeVars, adapterRooms, isReady>>

\* handleLogout after await redis.sMembers: every room of the user is left
\* with its four broadcasts, presence is removed, 'logout:success'.
handleLogoutEmits(userId) == logoutRoomEmits(userRooms(userId))

\* A handleLogout without the guard.
logoutAlreadyProcessedNever(flag) == FALSE

\* if (socket._logoutProcessed) return: the idempotency guard of handleLogout.
logoutAlreadyProcessed(flag) == flag

\* A 'logout' event on socket s: handleLogout up to await redis.sMembers.
LogoutStart(s) ==
  /\ CanStart(s)
  /\ InFlight(s) = {}
  /\ IF sockets[s].username = Null \/ logoutAlreadyProcessed(sockets[s].logoutProcessed)
     THEN /\ done' = [op |-> "handleLogout", via |-> "logout", outcome |-> "skipped",
                      userId |-> sockets[s].userId, username |-> sockets[s].username,
                      events |-> <<>>]
          /\ UNCHANGED <<sockets, tasks>>
     ELSE /\ sockets' = [sockets EXCEPT ![s].logoutProcessed = TRUE]
          /\ tasks' = [tasks EXCEPT ![NewSlot] =
                [op |-> "handleLogout", sock |-> s, pc |-> "rooms", via |-> "logout",
                 userId |-> sockets[s].userId, username |-> sockets[s].username,
                 events |-> <<EmitAll("presence:changed")>>]]
          /\ done' = NoDone
  /\ UNCHANGED <<timerVars, storeVars, adapterRooms, isReady>>

\* The rest of a handleLogout that runs as a handler of its own.
LogoutCleanup(i, thrown) ==
  /\ tasks[i].op = "handleLogout"
  /\ LET t == tasks[i] IN
       IF thrown
       THEN /\ done' = [op |-> "handleLogout", via |-> t.via, outcome |-> "error",
                        userId |-> t.userId, username |-> t.username,
                        events |-> t.events \o <<[ev |-> "error", to |-> {t.sock} \cap Sids]>>]
            /\ UNCHANGED storeVars
       ELSE /\ members' = removeFromRooms(members, userRooms(t.userId), t.username)
            /\ presenceStatus' = setPresence(presenceStatus, t.username, "removed")
            /\ done' = [op |-> "handleLogout", via |-> t.via, outcome |-> "success",
                        userId |-> t.userId, username |-> t.username,
                        events |-> t.events \o handleLogoutEmits(t.userId)
                                   \o <<[ev |-> "logout:success", to |-> {t.sock} \cap Sids]>>]
  /\ tasks' = [tasks EXCEPT ![i] = NoTask]
  /\ UNCHANGED <<timerVars, sockets, adapterRooms, isReady>>

\* The 'disconnect' event of socket s once its handlers have returned:
\* socket.io has dropped the socket from the server and from its rooms.
\* An unauthenticated socket: nothing. An explicit disconnect: handleLogout
\* (a handler in flight that has no live socket, sock = 0). Anything else:
\* the old timeout of the user, if any, is cleared and a new one is set.
handleDisconnect(s, reason) ==
  /\ s \in Sids
  /\ InFlight(s) = {}
  /\ sockets' = [sockets EXCEPT ![s] = FreeSocket]
  /\ adapterRooms' = [r \in Rooms |-> adapterRooms[r] \ {s}]
  /\ LET userId == sockets[s].userId
         username == sockets[s].username
         rec == [op |-> "handleDisconnect", sock |-> s,
                 userId |-> userId, username |-> username,
                 reason |-> reason,
                 hadTimer |-> userId # Null /\ MapHas(disconnectGraceTimers, userId)]
     IN
       IF username = Null
       THEN /\ done' = [rec EXCEPT !.hadTimer = FALSE] @@ [events |-> <<>>]
            /\ UNCHANGED <<timerVars, tasks>>
       ELSE IF isExplicitDisconnect(reason)
       THEN IF logoutAlreadyProcessed(sockets[s].logoutProcessed)
            THEN /\ done' = rec @@ [events |-> <<>>]
                 /\ UNCHANGED <<timerVars, tasks>>
            ELSE /\ FreeSlots # {}
                 /\ tasks' = [tasks EXCEPT ![NewSlot] =
                       [op |-> "handleLogout", sock |-> 0, pc |-> "rooms",
                        via |-> "disconnect", userId |-> userId, username |-> username,
                        events |-> <<>>]]
                 /\ done' = rec @@ [events |-> <<[ev |-> "presence:changed", to |-> Sids \ {s}]>>]
                 /\ UNCHANGED timerVars
       ELSE /\ SysFreeHandles(sysClearOld(userId)) # {}
            /\ disconnectGraceTimers' =
                 sysStartGraceTimer(userId, username, sockets[s].logoutProcessed).map
            /\ timeouts' =
                 sysStartGraceTimer(userId, username, sockets[s].logoutProcessed).timeouts
            /\ done' = rec @@ [events |-> <<>>]
            /\ UNCHANGED tasks
  /\ UNCHANGED <<storeVars, isReady>>

\* for (const [sid, s] of io.sockets) if (String(s.userId) === String(actualUserId))
\* (only when io.sockets is a Map, which depends on what the caller passes as io)
sysReconnected(userId, isMap) ==
  isMap /\ \E s \in Sids : sockets[s].userId = userId

\* The grace period of timeout h is over: its callback deletes the map entry
\* of its user, looks for a socket of the user and, finding none, announces
\* the user offline and enters handleLogout (up to await redis.sMembers).
SysFire(h, isMap) ==
  /\ Armed(h) /\ timeouts[h].delay = 0
  /\ disconnectGraceTimers' = MapDelete(disconnectGraceTimers, timeouts[h].userId)
  /\ LET t == timeouts[h]
         rec == [op |-> "graceExpiry", userId |-> t.userId, username |-> t.username,
                 reconnected |-> sysReconnected(t.userId, isMap)]
     IN
       IF sysReconnected(t.userId, isMap)
       THEN /\ timeouts' = [timeouts EXCEPT ![h] = FreeTimeout]
            /\ done' = rec @@ [events |-> <<>>]
       ELSE IF logoutAlreadyProcessed(t.sockLoggedOut)
       THEN /\ timeouts' = [timeouts EXCEPT ![h] = FreeTimeout]
            /\ done' = rec @@ [events |-> <<EmitAll("presence:changed")>>]
       ELSE /\ timeouts' = [timeouts EXCEPT ![h].st = "logout"]
            /\ done' = rec @@ [events |-> <<EmitAll("presence:changed"),
                                            EmitAll("presence:changed")>>]
  /\ UNCHANGED <<storeVars, sessionVars>>

\* The rest of the handleLogout the callback of timeout h awaits.
SysExpiryLogout(h, thrown) ==
  /\ timeouts[h].st = "logout"
  /\ LET t == timeouts[h] IN
       IF thrown
       THEN /\ done' = [op |-> "handleLogout", via |-> "expiry", outcome |-> "error",
                        userId |-> t.userId, username |-> t.username, events |-> <<>>]
            /\ UNCHANGED storeVars
       ELSE /\ members' = removeFromRooms(members, userRooms(t.userId), t.username)
            /\ presenceStatus' = setPresence(presenceStatus, t.username, "removed")
            /\ done' = [op |-> "handleLogout", via |-> "expiry", outcome |-> "success",
                        userId |-> t.userId, username |-> t.username,
                        events |-> handleLogoutEmits(t.userId)]
  /\ timeouts' = [timeouts EXCEPT ![h] = FreeTimeout]
  /\ UNCHANGED <<disconnectGraceTimers, sessionVars>>

\* SysTickMs pass, under the conditions of Tick.
SysTick ==
  /\ \E h \in Handles : Armed(h)
  /\ \A h \in Handles : Armed(h) => timeouts[h].delay > 0
  /\ \A h \in Handles : timeouts[h].st \in {"free", "armed"}
  /\ \A i \in DOMAIN tasks : tasks[i] = NoTask
  /\ timeouts' = [h \in Handles |->
        IF Armed(h) THEN [timeouts[h] EXCEPT !.delay = @ - SysTickMs] ELSE timeouts[h]]
  /\ done' = NoDone
  /\ UNCHANGED <<disconnectGraceTimers, storeVars, sessionVars>>

(***************************************************************************)
(* The registry and the presence directory called directly                  *)
(* (socketStore.js, redisPresence.js). fails: the store command throws.     *)
(***************************************************************************)
\* The null that getSocketRoomUsers answers when not ready.
NullUsers == [ready |-> FALSE, users |-> <<>>]

RECURSIVE socketUsers(_)
\* for (const sid of socketIds) { if (socket && socket.username) users.push({...}) }
socketUsers(sids) ==
  IF sids = {} THEN <<>>
  ELSE LET sid == CHOOSE x \in sids : \A y \in sids : x <= y IN
         (IF sockets[sid].connected /\ sockets[sid].username # Null
          THEN <<[id |-> sockets[sid].userId, username |-> sockets[sid].username,
                  socketId |-> sid]>>
          ELSE <<>>)
         \o socketUsers(sids \ {sid})

getSocketRoomUsers(rooms, roomId) ==
  IF ~isReady THEN NullUsers ELSE [ready |-> TRUE, users |-> socketUsers(rooms[roomId])]

RECURSIVE sMembers(_)
\* redis.sMembers: the members of a set as a list
sMembers(set) ==
  IF set = {} THEN <<>>
  ELSE LET n == CHOOSE x \in set : TRUE IN <<n>> \o sMembers(set \ {n})

\* redisPresence.getRoomUsers: the registry's names when ready, the store otherwise.
getRoomUsers(rooms, store, roomId, fails) ==
  LET su == getSocketRoomUsers(rooms, roomId) IN
    IF su.ready THEN [i \in 1..Len(su.users) |-> su.users[i].username]
    ELSE IF fails THEN <<>>
    ELSE sMembers(store[roomId])

\* redisPresence.isUserInRoom: sIsMember, false when the store throws.
isUserInRoom(store, roomId, username, fails) ==
  IF fails THEN FALSE ELSE username \in store[roomId]

\* return true after the store command, false from the catch
storeWriteRet(fails) == ~fails

\* socketStore.setIo(io)
SetIo ==
  /\ ~isReady
  /\ isReady' = TRUE
  /\ done' = [op |-> "setIo"]
  /\ UNCHANGED <<timerVars, storeVars, sockets, adapterRooms, tasks>>

\* socket.join(room) / socket.leave(room) as the adapter sees them.
SocketJoin(s, roomId) ==
  /\ s \in Sids /\ s \notin adapterRooms[roomId]
  /\ adapterRooms' = [adapterRooms EXCEPT ![roomId] = @ \cup {s}]
  /\ done' = NoDone
  /\ UNCHANGED <<timerVars, storeVars, sockets, isReady, tasks>>

SocketLeave(s, roomId) ==
  /\ s \in adapterRooms[roomId]
  /\ adapterRooms' = [adapterRooms EXCEPT ![roomId] = @ \ {s}]
  /\ done' = NoDone
  /\ UNCHANGED <<timerVars, storeVars, sockets, isReady, tasks>>

CallGetSocketRoomCount(roomId) ==
  /\ done' = [op |-> "getSocketRoomCount", roomId |-> roomId,
              ret |-> getSocketRoomCount(adapterRooms, roomId)]
  /\ UNCHANGED <<timerVars, storeVars, sessionVars>>

CallGetSocketRoomUsers(roomId) ==
  /\ done' = [op |-> "getSocketRoomUsers", roomId |-> roomId,
              ret |-> getSocketRoomUsers(adapterRooms, roomId)]
  /\ UNCHANGED <<timerVars, storeVars, sessionVars>>

CallGetRoomUserCount(roomId, fails) ==
  /\ done' = [op |-> "getRoomUserCount", roomId |-> roomId, fails |-> fails,
              ret |-> getRoomUserCount(adapterRooms, members, roomId, fails)]
  /\ UNCHANGED <<timerVars, storeVars, sessionVars>>

CallGetRoomUsers(roomId, fails) ==
  /\ done' = [op |-> "getRoomUsers", roomId |-> roomId, fails |-> fails,
              ret |-> getRoomUsers(adapterRooms, members, roomId, fails)]
  /\ UNCHANGED <<timerVars, storeVars, sessionVars>>

CallIsUserInRoom(roomId, username, fails) ==
  /\ done' = [op |-> "isUserInRoom", roomId |-> roomId, username |-> username,
              fails |-> fails, ret |-> isUserInRoom(members, roomId, username, fails)]
  /\ UNCHANGED <<timerVars, storeVars, sessionVars>>

CallAddUserToRoom(roomId, username, fails) ==
  /\ members' = IF fails THEN members ELSE addUserToRoom(members, roomId, username)
  /\ done' = [op |-> "addUserToRoom", roomId |-> roomId, username |-> username,
              fails |-> fails, ret |-> storeWriteRet(fails)]
  /\ UNCHANGED <<timerVars, presenceStatus, sessionVars>>

CallRemoveUserFromRoom(roomId, username, fails) ==
  /\ members' = IF fails THEN members ELSE removeUserFromRoom(members, roomId, username)
  /\ done' = [op |-> "removeUserFromRoom", roomId |-> roomId, username |-> username,
              fails |-> fails, ret |-> storeWriteRet(fails)]
  /\ UNCHANGED <<timerVars, presenceStatus, sessionVars>>

\* The key builders redisPresence.js declares at its top.
DeclaredKeys == {"ROOM_PARTICIPANTS_KEY", "ROOM_SYSTEM_KEY"}

\* redisPresence.clearRoomUsers: inside the try, getRedisClient(), then the
\* key ROOM_USERS_KEY(roomId) is evaluated as the argument of client.del;
\* evaluating a name the module never declares throws a ReferenceError
\* before del is called.  Whatever is thrown lands in the catch, which
\* returns false; return true follows a del that answered.
clearRoomUsers(store, roomId, fails) ==
  IF "ROOM_USERS_KEY" \notin DeclaredKeys THEN [store |-> store, ret |-> FALSE]
  ELSE IF fails THEN [store |-> store, ret |-> FALSE]
  ELSE [store |-> [store EXCEPT ![roomId] = {}], ret |-> TRUE]

CallClearRoomUsers(roomId, fails) ==
  LET res == clearRoomUsers(members, roomId, fails) IN
    /\ members' = res.store
    /\ done' = [op |-> "clearRoomUsers", roomId |-> roomId, fails |-> fails,
                ret |-> res.ret, before |-> members[roomId]]
    /\ UNCHANGED <<timerVars, presenceStatus, sessionVars>>

(***************************************************************************)
(* Specifications                                                           *)
(***************************************************************************)
\* The server after start-up: setIo has run, nobody is connected.
Init ==
  /\ disconnectGraceTimers = EmptyMap
  /\ timeouts = [h \in Handles |-> FreeTimeout]
  /\ members = [r \in Rooms |-> {}]
  /\ presenceStatus = [n \in Usernames |-> "online"]
  /\ sockets = [s \in SocketIds |-> FreeSocket]
  /\ adapterRooms = [r \in Rooms |-> {}]
  /\ isReady = TRUE
  /\ tasks = [i \in 1..MaxInFlight |-> NoTask]
  /\ done = NoDone

Next ==
  \/ \E u \in Clients : Connect(u)
  \/ \E s \in Sids : Disconnect(s)
  \/ \E s \in Sids : \E data \in Requests(s) : JoinStart(s, data)
  \/ \E i \in 1..MaxInFlight, success \in BOOLEAN : JoinGate(i, success)
  \/ \E i \in 1..MaxInFlight, thrown \in BOOLEAN : JoinEmit(i, thrown)
  \/ \E s \in Sids : \E data \in Requests(s), silent \in {"omitted", "true", "false"} :
        RejoinStart(s, data, silent)
  \/ \E i \in 1..MaxInFlight, success \in BOOLEAN : RejoinGate(i, success)
  \/ \E i \in 1..MaxInFlight, thrown \in BOOLEAN : RejoinEmit(i, thrown)
  \/ \E s \in Sids : \E data \in Requests(s) : LeaveStart(s, data)
  \/ \E i \in 1..MaxInFlight, thrown \in BOOLEAN : LeaveRemoved(i, thrown)
  \/ \E i \in 1..MaxInFlight, thrown \in BOOLEAN : LeaveEmit(i, thrown)
  \/ \E h \in Handles : Fire(h)
  \/ \E h \in Handles : ExpiryAfterRemove(h)
  \/ \E h \in Handles : ExpiryAfterPresence(h)
  \/ Tick

Spec == Init /\ [][Next]_vars

\* The grace timer manager alone, called through its exported functions in
\* any order, for users who are in every room's durable set.
InitTimer ==
  /\ disconnectGraceTimers = EmptyMap
  /\ timeouts = [h \in Handles |-> FreeTimeout]
  /\ members = [r \in Rooms |-> Usernames]
  /\ presenceStatus = [n \in Usernames |-> "online"]
  /\ sockets = [s \in SocketIds |-> FreeSocket]
  /\ adapterRooms = [r \in Rooms |-> {}]
  /\ isReady = TRUE
  /\ tasks = [i \in 1..MaxInFlight |-> NoTask]
  /\ done = NoDone

NextTimer ==
  \/ \E u \in UserIds, r \in Rooms \cup {Null} : ApiAdd(u, r)
  \/ \E u \in UserIds : ApiCancel(u)
  \/ \E h \in Handles : Fire(h)
  \/ \E h \in Handles : ExpiryAfterRemove(h)
  \/ \E h \in Handles : ExpiryAfterPresence(h)
  \/ Tick

SpecTimer == InitTimer /\ [][NextTimer]_vars

\* The timer manager called with durations of the caller's choice and asked
\* for the time a user has left.
NextRemaining ==
  \/ \E u \in UserIds, r \in AskedRooms, d \in Durations : ApiAddFor(u, r, d)
  \/ \E u \in UserIds : ApiCancel(u)
  \/ \E u \in UserIds : CallGetRemainingGracePeriod(u)
  \/ \E h \in Handles : Fire(h)
  \/ \E h \in Handles : ExpiryAfterRemove(h)
  \/ \E h \in Handles : ExpiryAfterPresence(h)
  \/ Tick

SpecRemaining == InitTimer /\ [][NextRemaining]_vars

\* The timer manager with a directory whose removal can be rejected.
NextExpiry ==
  \/ NextTimer
  \/ \E h \in Handles : ExpiryRemoveRejects(h)

SpecExpiry == InitTimer /\ [][NextExpiry]_vars

\* One session that switches between the rooms by joinRoom and leaveRoom.
ConnectOne(userId) == Sids = {} /\ Connect(userId)

NextSwitch ==
  \/ \E u \in Clients : ConnectOne(u)
  \/ \E s \in Sids : \E data \in RequestsFor(s, Rooms) : JoinStart(s, data)
  \/ \E i \in 1..MaxInFlight, success \in BOOLEAN : JoinGate(i, success)
  \/ \E i \in 1..MaxInFlight, thrown \in BOOLEAN : JoinEmit(i, thrown)
  \/ \E s \in Sids : \E data \in RequestsFor(s, Rooms) : LeaveStart(s, data)
  \/ \E i \in 1..MaxInFlight, thrown \in BOOLEAN : LeaveRemoved(i, thrown)
  \/ \E i \in 1..MaxInFlight, thrown \in BOOLEAN : LeaveEmit(i, thrown)

SpecSwitch == Init /\ [][NextSwitch]_vars

\* Two users with one session each in one room, within the grace period of
\* every disconnect (no time passes).
ConnectSingle(userId) ==
  /\ \A s \in Sids : sockets[s].userId # userId
  /\ Connect(userId)

NextCount ==
  \/ \E u \in UserIds : ConnectSingle(u)
  \/ \E s \in Sids : Disconnect(s)
  \/ \E s \in Sids : \E data \in Requests(s) : JoinStart(s, data)
  \/ \E i \in 1..MaxInFlight, success \in BOOLEAN : JoinGate(i, success)
  \/ \E i \in 1..MaxInFlight, thrown \in BOOLEAN : JoinEmit(i, thrown)
  \/ \E s \in Sids : \E data \in Requests(s), silent \in {"omitted", "true", "false"} :
        RejoinStart(s, data, silent)
  \/ \E i \in 1..MaxInFlight, success \in BOOLEAN : RejoinGate(i, success)
  \/ \E i \in 1..MaxInFlight, thrown \in BOOLEAN : RejoinEmit(i, thrown)
  \/ \E s \in Sids : \E data \in Requests(s) : LeaveStart(s, data)
  \/ \E i \in 1..MaxInFlight, thrown \in BOOLEAN : LeaveRemoved(i, thrown)
  \/ \E i \in 1..MaxInFlight, thrown \in BOOLEAN : LeaveEmit(i, thrown)

SpecCount == Init /\ [][NextCount]_vars

\* The sessions of one user connect and drop, and send rejoinRoom: a request
\* meets the user with or without a grace timer entry.
NextRejoin ==
  \/ \E u \in Clients : Connect(u)
  \/ \E s \in Sids : Disconnect(s)
  \/ \E s \in Sids : \E data \in Requests(s), silent \in {"omitted", "true", "false"} :
        RejoinStart(s, data, silent)
  \/ \E i \in DOMAIN tasks, success \in BOOLEAN : RejoinGate(i, success)
  \/ \E i \in DOMAIN tasks, thrown \in BOOLEAN : RejoinEmit(i, thrown)

SpecRejoin == Init /\ [][NextRejoin]_vars

\* What a client sends with 'authenticate': its identity, or no userId.
AuthRequests ==
  {[userId |-> u, username |-> usernameOf(u)] : u \in UserIds}
  \cup {[userId |-> Null, username |-> "alice"]}

\* The system events handler after a restart of the server: nobody is
\* connected, no timer is pending, and the store has kept every user in
\* every room's durable set.
InitSys ==
  /\ disconnectGraceTimers = EmptyMap
  /\ timeouts = [h \in Handles |-> FreeTimeout]
  /\ members = [r \in Rooms |-> Usernames]
  /\ presenceStatus = [n \in Usernames |-> "online"]
  /\ sockets = [s \in SocketIds |-> FreeSocket]
  /\ adapterRooms = [r \in Rooms |-> {}]
  /\ isReady = TRUE
  /\ tasks = [i \in 1..MaxInFlight |-> NoTask]
  /\ done = NoDone

NextSys ==
  \/ SysConnect
  \/ \E s \in Sids : \E data \in AuthRequests : AuthStart(s, data)
  \/ \E i \in 1..MaxInFlight, ok \in BOOLEAN : AuthDone(i, ok)
  \/ \E s \in Sids : LogoutStart(s)
  \/ \E i \in 1..MaxInFlight, thrown \in BOOLEAN : LogoutCleanup(i, thrown)
  \/ \E s \in Sids : \E reason \in Reasons : handleDisconnect(s, reason)
  \/ \E h \in Handles, isMap \in BOOLEAN : SysFire(h, isMap)
  \/ \E h \in Handles, thrown \in BOOLEAN : SysExpiryLogout(h, thrown)
  \/ SysTick

SpecSys == InitSys /\ [][NextSys]_vars

\* The process before setIo: the registry is not ready, sockets connect and
\* join rooms, and the registry and the presence directory are called in
\* any order.
InitPresence ==
  /\ disconnectGraceTimers = EmptyMap
  /\ timeouts = [h \in Handles |-> FreeTimeout]
  /\ members = [r \in Rooms |-> {}]
  /\ presenceStatus = [n \in Usernames |-> "online"]
  /\ sockets = [s \in SocketIds |-> FreeSocket]
  /\ adapterRooms = [r \in Rooms |-> {}]
  /\ isReady = FALSE
  /\ tasks = [i \in 1..MaxInFlight |-> NoTask]
  /\ done = NoDone

NextPresence ==
  \/ SetIo
  \/ \E u \in Clients : Connect(u)
  \/ SysConnect
  \/ \E s \in Sids, r \in AskedRooms : SocketJoin(s, r)
  \/ \E s \in Sids, r \in AskedRooms : SocketLeave(s, r)
  \/ \E r \in AskedRooms : CallGetSocketRoomCount(r)
  \/ \E r \in AskedRooms : CallGetSocketRoomUsers(r)
  \/ \E r \in AskedRooms, fails \in BOOLEAN : CallGetRoomUserCount(r, fails)
  \/ \E r \in AskedRooms, fails \in BOOLEAN : CallGetRoomUsers(r, fails)
  \/ \E r \in AskedRooms, n \in Usernames, fails \in BOOLEAN : CallIsUserInRoom(r, n, fails)
  \/ \E r \in AskedRooms, n \in Usernames, fails \in BOOLEAN : CallAddUserToRoom(r, n, fails)
  \/ \E r \in AskedRooms, n \in Usernames, fails \in BOOLEAN : CallRemoveUserFromRoom(r, n, fails)
  \/ \E r \in AskedRooms, fails \in BOOLEAN : CallClearRoomUsers(r, fails)

SpecPresence == InitPresence /\ [][NextPresence]_vars

\* One session whose joinRoom and leaveRoom requests for one room may arrive
\* while an earlier handler of the session is suspended at an await.
InitRace ==
  /\ disconnectGraceTimers = EmptyMap
  /\ timeouts = [h \in Handles |-> FreeTimeout]
  /\ members = [r \in Rooms |-> {}]
  /\ presenceStatus = [n \in Usernames |-> "online"]
  /\ sockets = [s \in SocketIds |-> FreeSocket]
  /\ adapterRooms = [r \in Rooms |-> {}]
  /\ isReady = TRUE
  /\ tasks = [i \in 1..(MaxInFlight + 1) |-> NoTask]
  /\ done = NoDone

NextRace ==
  \/ \E u \in Clients : ConnectOne(u)
  \/ \E s \in Sids : \E data \in Requests(s) : JoinStart(s, data)
  \/ \E i \in DOMAIN tasks, success \in BOOLEAN : JoinGate(i, success)
  \/ \E i \in DOMAIN tasks, thrown \in BOOLEAN : JoinEmit(i, thrown)
  \/ \E s \in Sids : \E data \in Requests(s) : LeaveStart(s, data)
  \/ \E i \in DOMAIN tasks, thrown \in BOOLEAN : LeaveRemoved(i, thrown)
  \/ \E i \in DOMAIN tasks, thrown \in BOOLEAN : LeaveEmit(i, thrown)

SpecRace == InitRace /\ [][NextRace]_vars

\* Two users, one session each, whose joinRoom, rejoinRoom and leaveRoom
\* handlers overlap; the gate grants and the lookups answer.
NextOverlap ==
  \/ \E u \in UserIds : ConnectSingle(u)
  \/ \E s \in Sids : \E data \in Requests(s) : JoinStart(s, data)
  \/ \E i \in DOMAIN tasks : JoinGate(i, TRUE)
  \/ \E i \in DOMAIN tasks : JoinEmit(i, FALSE)
  \/ \E s \in Sids : \E data \in Requests(s) : RejoinStart(s, data, "false")
  \/ \E i \in DOMAIN tasks : RejoinGate(i, TRUE)
  \/ \E i \in DOMAIN tasks : RejoinEmit(i, FALSE)
  \/ \E s \in Sids : \E data \in Requests(s) : LeaveStart(s, data)
  \/ \E i \in DOMAIN tasks : LeaveRemoved(i, FALSE)
  \/ \E i \in DOMAIN tasks : LeaveEmit(i, FALSE)

SpecOverlap == InitRace /\ [][NextOverlap]_vars

\* One user whose only session joins rooms and is lost, with time passing.
\* The runtime fires a due timeout and resumes a suspended callback, and
\* time goes on; whether the user connects again is up to the user.
NextStale ==
  \/ \E u \in Clients : ConnectOne(u)
  \/ \E s \in Sids : Disconnect(s)
  \/ \E s \in Sids : \E data \in RequestsFor(s, Rooms) : JoinStart(s, data)
  \/ \E i \in DOMAIN tasks, success \in BOOLEAN : JoinGate(i, success)
  \/ \E i \in DOMAIN tasks, thrown \in BOOLEAN : JoinEmit(i, thrown)
  \/ \E h \in Handles : Fire(h)
  \/ \E h \in Handles : ExpiryAfterRemove(h)
  \/ \E h \in Handles : ExpiryAfterPresence(h)
  \/ Tick

SpecStale ==
  /\ Init /\ [][NextStale]_vars
  /\ WF_vars(Tick)
  /\ WF_vars(\E h \in Handles : Fire(h))
  /\ WF_vars(\E h \in Handles : ExpiryAfterRemove(h))
  /\ WF_vars(\E h \in Handles : ExpiryAfterPresence(h))

(***************************************************************************)
(* Properties                                                               *)
(***************************************************************************)
ArmedFor(u) == {h \in Handles : Armed(h) /\ timeouts[h].userId = u}

\* A grace timer is pending for userId: the map has an entry or the runtime
\* holds an armed timeout for it.
PendingFor(u) == MapHas(disconnectGraceTimers, u) \/ ArmedFor(u) # {}

\* The user has a connected session.
HasSession(username) == \E s \in Sids : sockets[s].username = username

Positions(events, ev) == {i \in 1..Len(events) : events[i].ev = ev}

\* Entered and left notifications among the events.
Notifications(events) ==
  CountEv(events, "room:userEntered") + CountEv(events, "room:userLeft")

\* C1: in every reachable state, whatever the interleaving of start, cancel
\* and expiry, no userId has more than one armed timeout (the map, being a
\* map, holds at most one entry per userId).
C1_OneArmedTimerPerUser ==
  \A u \in UserIds : Cardinality(ArmedFor(u)) <= 1

\* C2: a successful joinRoom for a room the session has not joined broadcasts
\* exactly one room:userEntered, and a successful rejoinRoom that leaves
\* silent at its default broadcasts none.
C2_FirstJoinOnceRejoinNone ==
  /\ (done.op = "joinRoom" /\ done.outcome = "success" /\ done.firstAsk)
        => CountEv(done.events, "room:userEntered") = 1
  /\ (done.op = "rejoinRoom" /\ done.outcome = "success" /\ done.silent = "omitted")
        => CountEv(done.events, "room:userEntered") = 0

\* C2, its case: a rejoinRoom with silent omitted succeeds on a session that
\* has joined the room before, and no room:userEntered goes out.
C2_Witness ==
  /\ done.op = "rejoinRoom" /\ done.outcome = "success" /\ done.silent = "omitted"
  /\ done.roomId \in sockets[done.sock].joinedRooms
  /\ CountEv(done.events, "room:userEntered") = 0

C4_RemovedAtExpiry ==
  [][\A h \in Handles :
        (/\ timeouts[h].st = "offlining" /\ timeouts'[h].st = "free"
         /\ timeouts[h].roomId # Null /\ ~timeouts[h].cancelled)
        => timeouts[h].username \notin members'[timeouts[h].roomId]]_vars

\* C5: a leaveRoom request with all three identifiers that completes without
\* error emits exactly one room:userLeft, addressed to the other sessions of
\* the room, and after it exactly one room:userListUpdate, whether or not the
\* session was in the room.
C5_LeaveBroadcastsLeftThenList ==
  (done.op = "leaveRoom" /\ done.outcome = "success") =>
     /\ CountEv(done.events, "room:userLeft") = 1
     /\ CountEv(done.events, "room:userListUpdate") = 1
     /\ \A i \in Positions(done.events, "room:userLeft") :
          /\ done.events[i].to = adapterRooms[done.roomId] \ {done.sock}
          /\ \A j \in Positions(done.events, "room:userListUpdate") : i < j

\* C5, its case: a leaveRoom completes on a session that was not in the room
\* when it asked, and one room:userLeft goes out all the same.
C5_Witness ==
  /\ done.op = "leaveRoom" /\ done.outcome = "success"
  /\ ~done.wasIn
  /\ CountEv(done.events, "room:userLeft") = 1

\* C6: once a leaveRoom of a user has completed, no grace timer is pending
\* for that user.
C6_NoTimerAfterLeave ==
  (done.op = "leaveRoom" /\ done.outcome = "success") => ~PendingFor(done.userId)

\* C7: once a rejoinRoom of a user has completed successfully, no grace timer
\* exists for that user, and unless the rejoin was asked to be loud no
\* entered or left notification went out.
C7_RejoinCancelsTimer ==
  (done.op = "rejoinRoom" /\ done.outcome = "success") =>
     /\ ~PendingFor(done.userId)
     /\ done.silent # "false" => Notifications(done.events) = 0

\* C8: in every reachable state, every user with a live session registered
\* in a room is in that room's durable set.
C8_MembersSupersetOfLive ==
  \A r \in Rooms : \A s \in adapterRooms[r] : sockets[s].username \in members[r]

\* A grace timer associated with room r is pending for the user named n.
InGrace(n, r) ==
  \E u \in UserIds :
     /\ usernameOf(u) = n
     /\ \/ MapHas(disconnectGraceTimers, u) /\ disconnectGraceTimers[u].roomId = r
        \/ \E h \in ArmedFor(u) : timeouts[h].roomId = r

\* C9, read in the code's favour: whenever no handler and no timer callback
\* is in the middle of its work, every name in a room's durable set belongs
\* to a user who has a connected session (registered in the room or not
\* yet) or a pending grace timer for the room.
C9_MembersLiveOrInGrace ==
  Quiet => \A r \in Rooms : \A n \in members[r] : HasSession(n) \/ InGrace(n, r)

\* C10: for every timeout, it is never the case both that
\* cancelDisconnectTimer returned true for it and that its expiry effects run.
C10_CancelXorExpiry ==
  \A h \in Handles : ~(timeouts[h].cancelled /\ Running(h))

\* C11: addDisconnectGraceTimer for a userId that has an entry changes
\* nothing: the entry (handle, room, username, startedAt) and every timeout
\* (its countdown included) are as before, and no further timeout is armed.
C11_AddWithEntryIsNoop ==
  [][(done'.op = "addDisconnectGraceTimer" /\ done'.hadEntry)
        => UNCHANGED <<disconnectGraceTimers, timeouts>>]_vars

\* C11, its case: addDisconnectGraceTimer has just been called, for another
\* room than the entry's, for a user whose countdown had already run for a
\* while, and the entry still shows the old start and room.
C11_Witness ==
  /\ done.op = "addDisconnectGraceTimer" /\ done.hadEntry
  /\ MapHas(disconnectGraceTimers, done.userId)
  /\ disconnectGraceTimers[done.userId].startedAt < now
  /\ disconnectGraceTimers[done.userId].roomId # done.roomId
  /\ Armed(disconnectGraceTimers[done.userId].timer)
  /\ timeouts[disconnectGraceTimers[done.userId].timer].delay < DISCONNECT_GRACE_PERIOD

\* C12: cancelDisconnectTimer(userId) returns true exactly when the map had
\* an entry for userId; once it has returned the map has none, and a timeout
\* that had not fired is disarmed, so its expiry effects never run.
C12_CancelReturnsHadEntry ==
  done.op = "cancelDisconnectTimer" =>
     /\ done.ret = done.hadEntry
     /\ ~MapHas(disconnectGraceTimers, done.userId)
     /\ done.wasArmed => timeouts[done.timer].st = "free"

\* C12, its case: cancelDisconnectTimer has just returned true for a timeout
\* that was still waiting to fire.
C12_Witness ==
  /\ done.op = "cancelDisconnectTimer" /\ done.ret /\ done.wasArmed
  /\ timeouts[done.timer].st = "free"

\* C13: the callback of a grace timer takes the user out of the durable set
\* of the room recorded at the start as soon as it runs, and when it ends
\* the map has no entry for the user.
C13_ExpiryRemovesThenDeletes ==
  [][\A h \in Handles :
        /\ (/\ timeouts[h].st = "armed" /\ timeouts'[h].st = "removing")
              => timeouts[h].username \notin members'[timeouts[h].roomId]
        /\ (/\ timeouts[h].st = "offlining" /\ timeouts'[h].st = "free")
              => ~MapHas(disconnectGraceTimers', timeouts[h].userId)]_vars

\* C14: the expiry of a grace timer broadcasts no room:userLeft and no
\* "has left" chat message.
C14_ExpiryIsSilent ==
  done.op = "expiry" =>
     /\ CountEv(done.events, "room:userLeft") = 0
     /\ CountEv(done.events, "chat:message") = 0

\* C14, its case: the callback of a timer that nobody cancelled has run to
\* its end for a room in which a session is registered to hear of it.
C14_Witness ==
  /\ done.op = "expiry" /\ ~done.cancelled
  /\ done.roomId # Null
  /\ adapterRooms[done.roomId] # {}
  /\ done.events = <<>>

\* C16: a joinRoom that completes on a session which had left that room by
\* leaveRoom, and not joined it since, broadcasts room:userEntered exactly
\* once, and every completed leaveRoom broadcasts room:userLeft exactly once:
\* a session switching X, Y, X is announced at each join and each leave.
C16_JoinAfterLeaveAnnounces ==
  /\ (done.op = "joinRoom" /\ done.outcome = "success" /\ done.afterLeave)
        => CountEv(done.events, "room:userEntered") = 1
  /\ (done.op = "leaveRoom" /\ done.outcome = "success")
        => CountEv(done.events, "room:userLeft") = 1

\* C16, its case: the session has joined and left X, joined and left Y, and
\* its next joinRoom of X has completed with the entered broadcast.
C16_Witness ==
  /\ done.op = "joinRoom" /\ done.outcome = "success" /\ done.afterLeave
  /\ done.roomId = "X"
  /\ sockets[done.sock].left = {"Y"}
  /\ sockets[done.sock].joinedRooms = {"X"}
  /\ CountEv(done.events, "room:userEntered") = 1

\* C18: a rejoinRoom that completes successfully has broadcast exactly one
\* room:userEntered if it was sent with silent = false and none if silent
\* was true or omitted, and in every case has emitted exactly one
\* room:userListUpdate, to the sessions registered in the room, as its last
\* event.
C18_RejoinSilentFlag ==
  (done.op = "rejoinRoom" /\ done.outcome = "success") =>
     /\ CountEv(done.events, "room:userEntered")
           = (IF done.silent = "false" THEN 1 ELSE 0)
     /\ CountEv(done.events, "room:userListUpdate") = 1
     /\ done.events[Len(done.events)] = EmitRoom(done.roomId, "room:userListUpdate")

\* C18, its case: a rejoinRoom sent with silent = false has completed while
\* another session is registered in the room, and that session is told.
C18_Witness ==
  /\ done.op = "rejoinRoom" /\ done.outcome = "success" /\ done.silent = "false"
  /\ \E i \in Positions(done.events, "room:userEntered") :
        done.events[i].to # {}
  /\ CountEv(done.events, "room:userListUpdate") = 1

\* The three request handlers.
Handlers == {"joinRoom", "rejoinRoom", "leaveRoom"}

\* C19: a joinRoom, rejoinRoom or leaveRoom request with roomId, userId or
\* username missing never gets past validation, and the step that rejects it
\* emits one error event to the sending socket only and changes neither the
\* registry, the sessions' currentRoomId and joinedRooms, the durable
\* membership, presence, the timer map nor the timeouts.
C19_InvalidRequestChangesNothing ==
  [][/\ \A i \in 1..MaxInFlight :
           tasks'[i].op \in Handlers =>
              (tasks'[i].roomId # Null /\ tasks'[i].userId # Null
                 /\ tasks'[i].username # Null)
     /\ (done'.op \in Handlers /\ done'.outcome = "invalid") =>
           /\ done'.events = <<EmitSelf(done'.sock, "error")>>
           /\ UNCHANGED <<sockets, adapterRooms, members, presenceStatus,
                          disconnectGraceTimers, timeouts, tasks>>]_vars

\* C19, its case: a request with an identifier missing has been rejected on
\* a session that is registered in a room, while the room has durable
\* members and a grace timer is pending for the user.
C19_Witness ==
  /\ done.op \in Handlers /\ done.outcome = "invalid"
  /\ sockets[done.sock].currentRoomId = "X"
  /\ done.sock \in adapterRooms["X"]
  /\ members["X"] # {}
  /\ PendingFor(sockets[done.sock].userId)

\* C20: the step in which the gate denies a joinRoom or rejoinRoom emits
\* joinRoom:error or rejoinRoom:error to the sending socket and nothing else,
\* and changes neither the registry, the sessions' currentRoomId and
\* joinedRooms, the durable membership, the timer map nor the timeouts.
C20_DeniedChangesNothing ==
  [][(done'.op \in {"joinRoom", "rejoinRoom"} /\ done'.outcome = "denied") =>
        /\ done'.events =
              <<EmitSelf(done'.sock, IF done'.op = "joinRoom" THEN "joinRoom:error"
                                                              ELSE "rejoinRoom:error")>>
        /\ UNCHANGED <<sockets, adapterRooms, members, presenceStatus,
                       disconnectGraceTimers, timeouts>>]_vars

\* C20, its case: a joinRoom has been denied on a session that is not in the
\* room, while another session is registered there and would have received
\* a broadcast.
C20_Witness ==
  /\ done.op = "joinRoom" /\ done.outcome = "denied"
  /\ done.sock \notin adapterRooms[done.roomId]
  /\ adapterRooms[done.roomId] # {}
  /\ done.roomId \notin sockets[done.sock].joinedRooms
  /\ sockets[done.sock].currentRoomId = Null

\* C17: the userCount a completed joinRoom, rejoinRoom or leaveRoom reports
\* in its success and room:userListUpdate events is the number of users who
\* have joined the room and have neither left it nor had their grace period
\* expire, also while one of them is disconnected.
C17_CountIsDurableMembers ==
  (done.op \in Handlers /\ done.outcome = "success") =>
     done.userCount = Cardinality(members[done.roomId])

RegisteredNames(roomId) ==
  {sockets[s].username : s \in {x \in adapterRooms[roomId] : sockets[x].username # Null}}

\* The elements of a list.
Elems(list) == {list[i] : i \in 1..Len(list)}

\* C21: getSocketRoomCount and getSocketRoomUsers answer null exactly when
\* setIo has not been called; once it has, they answer the number of the
\* room's sockets and the list of its identified sockets, 0 and the empty
\* list for a room with no sockets.
C21_NullIffNotReady ==
  /\ done.op = "getSocketRoomCount" =>
        /\ (done.ret = NullCount) <=> ~isReady
        /\ isReady => done.ret = Cardinality(adapterRooms[done.roomId])
  /\ done.op = "getSocketRoomUsers" =>
        /\ (done.ret = NullUsers) <=> ~isReady
        /\ isReady => /\ done.ret.ready
                      /\ {u.username : u \in Elems(done.ret.users)}
                            = RegisteredNames(done.roomId)
                      /\ adapterRooms[done.roomId] = {} => done.ret.users = <<>>

\* C21, its case: the count is asked before setIo while a socket is in the
\* room, and the answer is null, not a number.
C21_Witness ==
  /\ done.op = "getSocketRoomCount" /\ ~isReady
  /\ adapterRooms[done.roomId] # {}
  /\ done.ret = NullCount

\* C22: getRoomUserCount and getRoomUsers answer from the registry whenever
\* it is ready, 0 and the empty list included and whatever the durable set
\* holds, and from the durable set only when the registry is not ready.
C22_StoreOnlyWhenNotReady ==
  /\ done.op = "getRoomUserCount" =>
        IF isReady THEN done.ret = Cardinality(adapterRooms[done.roomId])
        ELSE ~done.fails => done.ret = Cardinality(members[done.roomId])
  /\ done.op = "getRoomUsers" =>
        IF isReady THEN Elems(done.ret) = RegisteredNames(done.roomId)
        ELSE ~done.fails => Elems(done.ret) = members[done.roomId]

\* C22, its case: the registry is ready and has nobody in the room, the
\* durable set of the room is not empty, and the count is 0.
C22_Witness ==
  /\ done.op = "getRoomUserCount" /\ isReady
  /\ adapterRooms[done.roomId] = {}
  /\ members[done.roomId] # {}
  /\ done.ret = 0

\* C23: when the store command of a presence directory operation throws,
\* addUserToRoom, removeUserFromRoom and isUserInRoom return false,
\* getRoomUsers returns the empty list and getRoomUserCount returns 0 (the
\* last two touch the store only while the registry is not ready).
C23_StoreFailureDegrades ==
  /\ (done.op \in {"addUserToRoom", "removeUserFromRoom", "isUserInRoom"} /\ done.fails)
        => done.ret = FALSE
  /\ (done.op = "getRoomUsers" /\ done.fails /\ ~isReady) => done.ret = <<>>
  /\ (done.op = "getRoomUserCount" /\ done.fails /\ ~isReady) => done.ret = 0

\* C23, its case: the registry is not ready, the room has durable members,
\* the store throws, and the count is 0.
C23_Witness ==
  /\ done.op = "getRoomUserCount" /\ done.fails /\ ~isReady
  /\ members[done.roomId] # {}
  /\ done.ret = 0

\* C24: when a joinRoom, rejoinRoom or leaveRoom has ended with an error
\* event, the session is registered in the room exactly if it was when the
\* request arrived, and the room is in the session's first-join set exactly
\* if it was then, so that a retry behaves like the original request.
C24_ErrorLeavesStateAsBefore ==
  (done.op \in Handlers /\ done.outcome = "error") =>
     /\ (done.sock \in adapterRooms[done.roomId]) <=> done.wasIn
     /\ (done.roomId \notin sockets[done.sock].joinedRooms) <=> done.firstAsk

\* C25: a joinRoom that broadcasts room:userEntered did not find the room
\* already in the session's first-join set when it came back from the
\* gate: of two joinRoom requests for one room that overlap on a session,
\* at most one announces the user.
C25_FirstJoinDecidedOnce ==
  (done.op = "joinRoom" /\ done.outcome = "success"
     /\ CountEv(done.events, "room:userEntered") > 0)
    => ~done.inSetAtGate

\* C26: every entry of the timer map is removed by cancellation or by expiry,
\* also when the cleanup at expiry fails: no entry outlives its timer, so
\* the timeout of every entry is still armed or its callback is still running.
C26_NoEntryOutlivesTimer ==
  \A u \in DOMAIN disconnectGraceTimers :
     LET h == disconnectGraceTimers[u].timer IN
       /\ timeouts[h].st # "free"
       /\ timeouts[h].userId = u

\* C27: a user who was in no state of the room when the request was made
\* (never joined, left, or grace period expired) does not become a
\* registered member of the room by a joinRoom or rejoinRoom without a
\* room:userEntered being broadcast.
C27_EntryIsAnnounced ==
  (/\ done.op \in {"joinRoom", "rejoinRoom"} /\ done.outcome = "success"
   /\ done.notInRoom
   /\ done.sock \in adapterRooms[done.roomId])
     => CountEv(done.events, "room:userEntered") >= 1

\* C28: a rejoinRoom ends as the room-access gate decides, whether or not the
\* timer map has an entry for the user: it is denied exactly when the gate
\* denied it, and it succeeds only when the gate granted it (what else can
\* stop a granted request is an error of the count or participants lookup).
C28_RejoinFollowsGate ==
  (done.op = "rejoinRoom" /\ done.outcome \in {"success", "denied", "error"}) =>
     /\ (done.outcome = "denied") <=> ~done.granted
     /\ (done.outcome = "success") => done.granted

\* C28, its case: a rejoinRoom has succeeded for a user who never
\* disconnected and has no timer entry, on a session that never joined.
C28_Witness ==
  /\ done.op = "rejoinRoom" /\ done.outcome = "success" /\ done.granted
  /\ ~PendingFor(done.userId)
  /\ ~sockets[done.sock].resumed
  /\ done.firstAsk

\* C29: when a session's requests are handled one after the other (no other
\* handler of the session runs while the joinRoom does), a joinRoom for a room that is in the session's first-join set emits one
\* joinRoom:success and one room:userListUpdate and no room:userEntered; a
\* joinRoom that broadcasts room:userEntered leaves the room in the set, and
\* a room leaves the set only in a leaveRoom of that session for that room:
\* between two leaveRoom requests the user is announced at most once.
C29_RepeatedJoinIsQuiet ==
  [][/\ (/\ done'.op = "joinRoom" /\ done'.outcome = "success"
         /\ ~done'.overlapped /\ ~done'.firstAsk) =>
           /\ CountEv(done'.events, "room:userEntered") = 0
           /\ CountEv(done'.events, "joinRoom:success") = 1
           /\ CountEv(done'.events, "room:userListUpdate") = 1
           /\ Len(done'.events) = 2
     /\ (/\ done'.op = "joinRoom" /\ done'.outcome = "success"
         /\ ~done'.overlapped
         /\ CountEv(done'.events, "room:userEntered") > 0) =>
           /\ CountEv(done'.events, "room:userEntered") = 1
           /\ done'.roomId \in sockets'[done'.sock].joinedRooms
     /\ \A s \in SocketIds : \A r \in sockets[s].joinedRooms \ sockets'[s].joinedRooms :
           \/ \E i \in DOMAIN tasks :
                 /\ tasks[i].op = "leaveRoom" /\ tasks[i].sock = s /\ tasks[i].roomId = r
           \/ ~sockets'[s].connected]_vars

\* C29, its case: a joinRoom has completed on a session that had joined the
\* room before, was still registered in it and had not left it, and the
\* session got joinRoom:success and the room its list, with no entered.
C29_Witness ==
  /\ done.op = "joinRoom" /\ done.outcome = "success"
  /\ ~done.overlapped
  /\ ~done.firstAsk /\ done.wasIn /\ ~done.afterLeave
  /\ CountEv(done.events, "room:userEntered") = 0
  /\ done.events = <<EmitSelf(done.sock, "joinRoom:success"),
                     EmitRoom(done.roomId, "room:userListUpdate")>>

SuccessEvents == {"joinRoom:success", "rejoinRoom:success", "leaveRoom:success"}

\* C31: a joinRoom, rejoinRoom or leaveRoom in which an exception was raised
\* ends with exactly one error event, sent to the requesting socket, and no
\* request gets both a success event and an error event.
C31_ExceptionBecomesOneError ==
  done.op \in Handlers =>
     /\ done.outcome = "error" => done.events = <<EmitSelf(done.sock, "error")>>
     /\ \A i, j \in 1..Len(done.events) :
           ~(done.events[i].ev \in SuccessEvents /\ done.events[j].ev = "error")
     /\ CountEv(done.events, "error") <= 1

\* C31, its case: a lookup of a joinRoom threw after the gate had granted it
\* and the socket was registered in a room where another session listens;
\* the requesting socket got the error and nothing else went out.
C31_Witness ==
  /\ done.op = "joinRoom" /\ done.outcome = "error" /\ done.granted
  /\ done.sock \in adapterRooms[done.roomId]
  /\ adapterRooms[done.roomId] \ {done.sock} # {}
  /\ done.events = <<EmitSelf(done.sock, "error")>>

\* C32: in the system events handler, the unexpected disconnect of a user
\* who has a running grace timer leaves that timer as it is: it is neither
\* cleared, restarted nor extended, and no second timer is created.
C32_RunningTimerIsKept ==
  [][(/\ done'.op = "handleDisconnect"
      /\ done'.username # Null
      /\ done'.reason \notin ExplicitReasons
      /\ done'.hadTimer) =>
        UNCHANGED <<disconnectGraceTimers, timeouts>>]_vars

\* C33: a user whose last session was lost while the user was in a room's
\* durable set, and who does not connect again, is eventually removed from
\* that set.
C33_EventuallyRemoved ==
  \A n \in Usernames : \A r \in Rooms :
     (n \in members[r] /\ ~HasSession(n)) ~> (n \notin members[r] \/ HasSession(n))

\* C34: getRemainingGracePeriod(userId) returns 0 when the user has no
\* timer, and otherwise the time left until the user's timer fires (the
\* duration it was armed with minus the time since its start), never less
\* than 0; it changes neither the timer map nor any timeout.
C34_RemainingIsTimeToFire ==
  [][done'.op = "getRemainingGracePeriod" =>
        /\ done'.ret >= 0
        /\ UNCHANGED <<disconnectGraceTimers, timeouts>>
        /\ done'.ret =
              IF ~MapHas(disconnectGraceTimers, done'.userId) THEN 0
              ELSE IF Armed(disconnectGraceTimers[done'.userId].timer)
                   THEN timeouts[disconnectGraceTimers[done'.userId].timer].delay
                   ELSE 0]_vars

\* C35: no step of a rejoinRoom handler, whether the request is rejected,
\* denied, fails or succeeds, changes the first-join set of its session.
C35_RejoinKeepsFirstJoinSet ==
  [][\A s \in SocketIds :
        (\/ \E i \in DOMAIN tasks :
               /\ tasks'[i] # tasks[i]
               /\ \/ tasks[i].op = "rejoinRoom" /\ tasks[i].sock = s
                  \/ tasks'[i].op = "rejoinRoom" /\ tasks'[i].sock = s
         \/ done' # done /\ done'.op = "rejoinRoom" /\ done'.sock = s)
        => sockets'[s].joinedRooms = sockets[s].joinedRooms]_vars

\* C35, its case: a rejoinRoom has succeeded on a session that is now
\* registered in the room, and the room is not in its first-join set.
C35_Witness ==
  /\ done.op = "rejoinRoom" /\ done.outcome = "success"
  /\ done.sock \in adapterRooms[done.roomId]
  /\ sockets[done.sock].currentRoomId = done.roomId
  /\ done.roomId \notin sockets[done.sock].joinedRooms

\* C36: when the registry is ready, the count getSocketRoomCount returns for
\* a room equals the length of the list getSocketRoomUsers returns for it.
C36_CountIsListLength ==
  isReady =>
     \A r \in Rooms :
        getSocketRoomCount(adapterRooms, r) = Len(getSocketRoomUsers(adapterRooms, r).users)

\* C37: whenever no request of a session is being handled, the session's
\* currentRoomId is null if and only if the session is registered in no
\* room, and otherwise names a room in which the session is registered.
C37_CurrentRoomIsRegistered ==
  \A s \in Sids :
     InFlight(s) = {} =>
        /\ (sockets[s].currentRoomId = Null) <=> (\A r \in Rooms : s \notin adapterRooms[r])
        /\ sockets[s].currentRoomId # Null => s \in adapterRooms[sockets[s].currentRoomId]

\* C38: in the system events handler a handleLogout goes past its guard, to
\* the forced leave of the rooms and the removal of presence and session,
\* only for a socket whose guard flag was not set, whether it was invoked
\* by a logout event, by an explicit disconnect or by the expiry of the
\* grace timer; going past sets the flag, and the flag of a socket is never
\* reset: the cleanup runs at most once per socket.
C38_LogoutCleanupOnce ==
  [][/\ \A i \in DOMAIN tasks :
           (tasks[i].op = "none" /\ tasks'[i].op = "handleLogout") =>
              IF tasks'[i].via = "logout"
              THEN /\ ~sockets[tasks'[i].sock].logoutProcessed
                   /\ sockets'[tasks'[i].sock].logoutProcessed
              ELSE /\ done'.op = "handleDisconnect"
                   /\ ~sockets[done'.sock].logoutProcessed
     /\ \A h \in Handles :
           (timeouts[h].st = "armed" /\ timeouts'[h].st = "logout") =>
              ~timeouts[h].sockLoggedOut
     /\ \A s \in Sids :
           (sockets[s].logoutProcessed /\ sockets'[s].connected) =>
              sockets'[s].logoutProcessed]_vars

\* C38, its case: a second logout event has arrived on a socket whose
\* cleanup has run and taken the user out of room X, and it was skipped.
C38_Witness ==
  /\ done.op = "handleLogout" /\ done.via = "logout" /\ done.outcome = "skipped"
  /\ done.username # Null
  /\ done.username \notin members["X"]
  /\ done.events = <<>>

\* C39: in the system events handler, when the grace timer fires while the
\* user has a live session, the callback skips the cleanup: it broadcasts no
\* offline presence and does not run handleLogout.
C39_ExpirySkipsReconnected ==
  (/\ done.op = "graceExpiry"
   /\ \E s \in Sids : sockets[s].userId = done.userId) =>
     /\ done.events = <<>>
     /\ \A h \in Handles :
           ~(timeouts[h].st = "logout" /\ timeouts[h].userId = done.userId)

\* C40: clearRoomUsers(roomId) deletes the room's durable membership set and
\* returns true whenever the store answers; after a true, isUserInRoom is
\* false for every username in that room.
C40_ClearRoomUsersClears ==
  done.op = "clearRoomUsers" =>
    /\ ~done.fails => (done.ret = TRUE /\ members[done.roomId] = {})
    /\ done.ret = TRUE =>
          \A u \in Usernames : ~isUserInRoom(members, done.roomId, u, FALSE)

====
